---- MODULE Spec2Model ----
(***************************************************************************)
(* A model of the resource-caching core of the shebang renderer:           *)
(*   - renderer/texture.rs : Texture values (image-backed behind an Arc,   *)
(*     or raw-buffer backed), their cache identity and fingerprint;        *)
(*   - render2.rs : the circle mesh cache in front of the lyon fill        *)
(*     tessellator, writing into one shared VertexBuffer;                  *)
(*   - renderer/material.rs : the shaders and the uniform payload of a     *)
(*     Material;                                                           *)
(*   - main.rs : the window_event handler and the frame it paints.         *)
(* Every specification below shares the same variables; the part a         *)
(* specification does not exercise stays at its initial value.             *)
(***************************************************************************)
EXTENDS Integers, Sequences, FiniteSets, TLC

VARIABLES
    textures,   \* the Texture values alive in the program, by slot
    heap,       \* Arc<RgbaImage> allocations: address -> RgbaImage or Free
    nextId,     \* the next identity CacheEntry::new() hands out
    panicked,   \* TRUE once a panic!() or a failed unwrap() has fired
    born,       \* per slot, the identity the Texture value was constructed with
    last,       \* the most recent texture operation and what it saw
    cache,      \* HashMap<Circle, (Vec<Vertex>, Vec<u32>)>, in insertion order
    buffers,    \* the shared output VertexBuffer
    geom,       \* where the geometry written last began in the buffer
    tessLog,    \* the keys the tessellator was run for, in order
    tessCalls,  \* the number of tess calls made so far
    lastTess,   \* the most recent tess call and what it saw
    matLast,    \* the most recent call on a Material and what it returned
    matPrev,    \* the call on a Material before that one
    app_i,      \* App::i, the frame counter
    exiting,    \* whether the event loop has been asked to exit
    geoms,      \* App::geoms, the scene
    surface_desc,  \* GPUState::surface_desc: the configured width and height
    frame,      \* what the window_event handler that ran last did
    builder,    \* a VertexBuffer driven call by call as a geometry builder
    vbLast,     \* the most recent call on builder and what it returned
    vbIds       \* the ids add_fill_vertex handed back, with their vertices, in order

texVars == <<textures, heap, nextId, born, last>>
tessVars == <<cache, buffers, geom, tessLog, tessCalls, lastTess>>
matVars == <<matLast, matPrev>>
appVars == <<app_i, exiting, geoms, surface_desc, frame>>
vbVars == <<builder, vbLast, vbIds>>
vars == <<textures, heap, nextId, born, panicked, last, cache, buffers, geom, tessLog,
          tessCalls, lastTess, matLast, matPrev, app_i, exiting, geoms, surface_desc, frame,
          builder, vbLast, vbIds>>

(***************************************************************************)
(* Bounds of the model.                                                    *)
(***************************************************************************)
MaxTextures == 2      \* Texture values alive at once
MaxTessCalls == 4     \* tess calls in one run
MaxFrames == 3        \* window events handled before the event loop exits
MaxBuilderCalls == 4  \* calls made on the geometry builder in one run

(***************************************************************************)
(* Images.  A DynamicImage is a decoded image in one of two pixel layouts; *)
(* an RgbaImage is 4 bytes per pixel.                                      *)
(***************************************************************************)
Widths == {1, 2}
Heights == {1}
Shades == {0, 255}

Fill(n, b) == [i \in 1..n |-> b]

\* The images handed to the texture operations: white in the grey layout,
\* black and white in the RGBA layout.
DynamicImages ==
    {[color |-> "ImageLuma8", width |-> w, height |-> h, buf |-> Fill(w * h, 255)] :
        w \in Widths, h \in Heights}
    \cup
    {[color |-> "ImageRgba8", width |-> w, height |-> h, buf |-> Fill(4 * w * h, s)] :
        w \in Widths, h \in Heights, s \in Shades}

\* DynamicImage::into_rgba8: a grey pixel L becomes (L, L, L, 255); an RGBA
\* image is taken as it is.
into_rgba8(d) ==
    IF d.color = "ImageLuma8"
    THEN [width |-> d.width, height |-> d.height,
          pixels |-> [i \in 1..(4 * d.width * d.height) |->
                         IF i % 4 = 0 THEN 255 ELSE d.buf[((i - 1) \div 4) + 1]]]
    ELSE [width |-> d.width, height |-> d.height, pixels |-> d.buf]

dimensions(img) == <<img.width, img.height>>

(***************************************************************************)
(* The heap of Arc<RgbaImage> allocations.                                 *)
(***************************************************************************)
\* An address nothing is allocated at.
Free == [width |-> 0, height |-> 0, pixels |-> <<>>]
Addrs == 1..(MaxTextures + 1)

RefCount(texs, a) ==
    Cardinality({t \in DOMAIN texs :
                    texs[t].variant = "RgbaImageTexture" /\ texs[t].image = a})

\* Arc::new: the allocation takes a free address.
ArcNew(h) == CHOOSE a \in Addrs : h[a] = Free /\ \A b \in Addrs : h[b] = Free => a <= b

\* Dropping the last Arc to an allocation frees it.
Collect(h, texs) == [a \in Addrs |-> IF RefCount(texs, a) = 0 THEN Free ELSE h[a]]

(***************************************************************************)
(* Texture accessors.                                                      *)
(***************************************************************************)
size(h, tex) ==
    IF tex.variant = "RgbaImageTexture" THEN dimensions(h[tex.image])
    ELSE <<tex.width, tex.height>>

width(h, tex) ==
    IF tex.variant = "RgbaImageTexture" THEN h[tex.image].width ELSE tex.width

height(h, tex) ==
    IF tex.variant = "RgbaImageTexture" THEN h[tex.image].height ELSE tex.height

data(h, tex) ==
    IF tex.variant = "RgbaImageTexture" THEN h[tex.image].pixels ELSE tex.buffer

fingerprint(tex) == tex.fingerprint

cache_id(tex) == tex.id

\* Everything a caller can read from a Texture value.
Observe(h, tex) ==
    [data |-> data(h, tex), size |-> size(h, tex),
     fingerprint |-> fingerprint(tex), cache_id |-> cache_id(tex)]

(***************************************************************************)
(* Texture operations.                                                     *)
(***************************************************************************)
\* rand::random::<u64>(): any value of the range, here two of them.
Random == {0, 1}

\* CacheEntry::new(): a process-unique identity, handed out in order.
CacheEntryNew(n) == n

NoOp == [op |-> "none", t |-> 0, outcome |-> "ok", arg |-> <<0, 0>>]

InitTexture ==
    /\ textures = <<>>
    /\ heap = [a \in Addrs |-> Free]
    /\ nextId = 1
    /\ born = <<>>
    /\ last = NoOp

\* Texture::new_from_image(image)
new_from_image(image, f) ==
    /\ ~panicked
    /\ Len(textures) < MaxTextures
    /\ LET a == ArcNew(heap)
           tex == [variant |-> "RgbaImageTexture", image |-> a,
                   id |-> CacheEntryNew(nextId), fingerprint |-> f]
       IN /\ heap' = [heap EXCEPT ![a] = into_rgba8(image)]
          /\ textures' = Append(textures, tex)
          /\ born' = Append(born, tex.id)
          /\ last' = [op |-> "new_from_image", t |-> Len(textures) + 1,
                      outcome |-> "ok", arg |-> dimensions(into_rgba8(image))]
    /\ nextId' = nextId + 1
    /\ UNCHANGED panicked

\* Texture::RawTexture { buffer, width, height, id, fingerprint }
new_raw(w, h, f) ==
    /\ ~panicked
    /\ Len(textures) < MaxTextures
    /\ LET tex == [variant |-> "RawTexture", buffer |-> Fill(4 * w * h, 0),
                   width |-> w, height |-> h,
                   id |-> CacheEntryNew(nextId), fingerprint |-> f]
       IN /\ textures' = Append(textures, tex)
          /\ born' = Append(born, tex.id)
          /\ last' = [op |-> "new_raw", t |-> Len(textures) + 1,
                      outcome |-> "ok", arg |-> <<w, h>>]
    /\ nextId' = nextId + 1
    /\ UNCHANGED <<heap, panicked>>

\* #[derive(Clone)]: the Arc is shared, identity and fingerprint are copied.
clone(t) ==
    /\ ~panicked
    /\ Len(textures) < MaxTextures
    /\ textures' = Append(textures, textures[t])
    /\ born' = Append(born, textures[t].id)
    /\ last' = [op |-> "clone", t |-> t, outcome |-> "ok", arg |-> <<0, 0>>]
    /\ UNCHANGED <<heap, nextId, panicked>>

\* update_image as it would be if it also drew a new identity.
UpdateOkNewIdentity(t, new_image, f) ==
    LET a == ArcNew(heap)
        texs == [textures EXCEPT ![t].fingerprint = f, ![t].image = a,
                                 ![t].id = CacheEntryNew(nextId)]
    IN /\ textures' = texs
       /\ heap' = Collect([heap EXCEPT ![a] = new_image], texs)
       /\ panicked' = panicked

\* update_image as it would be if it wrote through the shared Arc.
UpdateOkInPlace(t, new_image, f) ==
    /\ textures' = [textures EXCEPT ![t].fingerprint = f]
    /\ heap' = [heap EXCEPT ![textures[t].image] = new_image]
    /\ panicked' = panicked

\* The Ok arm of update_image: a fresh fingerprint, then a fresh Arc.
UpdateOk(t, new_image, f) ==
    LET a == ArcNew(heap)
        texs == [textures EXCEPT ![t].fingerprint = f, ![t].image = a]
    IN /\ textures' = texs
       /\ heap' = Collect([heap EXCEPT ![a] = new_image], texs)
       /\ panicked' = panicked

\* update_image as it would be without the comparison of the dimensions.
UpdateImageAnySize(t, image, f) ==
    /\ ~panicked
    /\ LET tex == textures[t]
           new_image == into_rgba8(image)
           fits == tex.variant = "RgbaImageTexture"
       IN /\ IF fits
             THEN UpdateOk(t, new_image, f)
             ELSE /\ panicked' = TRUE
                  /\ UNCHANGED <<textures, heap>>
          /\ last' = [op |-> "update_image", t |-> t,
                      outcome |-> IF fits THEN "ok" ELSE "panic",
                      arg |-> dimensions(new_image)]
    /\ UNCHANGED <<nextId, born>>

\* update_image as it would be if the raw variant took the new pixels too.
UpdateImageAcceptingRaw(t, image, f) ==
    /\ ~panicked
    /\ LET tex == textures[t]
           new_image == into_rgba8(image)
           raw == tex.variant = "RawTexture"
           fits == raw \/ dimensions(heap[tex.image]) = dimensions(new_image)
       IN /\ IF raw
             THEN /\ textures' = [textures EXCEPT ![t].fingerprint = f,
                                                  ![t].buffer = new_image.pixels]
                  /\ UNCHANGED <<heap, panicked>>
             ELSE IF fits
                  THEN UpdateOk(t, new_image, f)
                  ELSE /\ panicked' = TRUE
                       /\ UNCHANGED <<textures, heap>>
          /\ last' = [op |-> "update_image", t |-> t,
                      outcome |-> IF fits THEN "ok" ELSE "panic",
                      arg |-> dimensions(new_image)]
    /\ UNCHANGED <<nextId, born>>

\* Texture::update_image(&mut self, image)
update_image(t, image, f) ==
    /\ ~panicked
    /\ LET tex == textures[t]
           new_image == into_rgba8(image)
           fits == /\ tex.variant = "RgbaImageTexture"
                   /\ dimensions(heap[tex.image]) = dimensions(new_image)
       IN /\ IF fits
             THEN UpdateOk(t, new_image, f)
             ELSE /\ panicked' = TRUE
                  /\ UNCHANGED <<textures, heap>>
          /\ last' = [op |-> "update_image", t |-> t,
                      outcome |-> IF fits THEN "ok" ELSE "panic",
                      arg |-> dimensions(new_image)]
    /\ UNCHANGED <<nextId, born>>

(***************************************************************************)
(* An f32 is its IEEE-754 bit pattern, split into the sign bit, the 8      *)
(* exponent bits and the 23 mantissa bits; == is the IEEE comparison       *)
(* computed on those bits.                                                 *)
(***************************************************************************)
F32(s, e, m) == [sign |-> s, exponent |-> e, mantissa |-> m]

PlusZero == F32(0, 0, 0)
MinusZero == F32(1, 0, 0)
One == F32(0, 127, 0)
QuietNaN == F32(0, 255, 4194304)

CenterXs == {PlusZero, MinusZero, QuietNaN}
CenterYs == {PlusZero}
Radii == {PlusZero, One}

\* The circles handed to tess: every centre with a radius of one, and one
\* circle of radius zero.
Circles ==
    {c \in [centerx : CenterXs, centery : CenterYs, radius : Radii] :
        c.radius = PlusZero => c.centerx = PlusZero}

\* f32::to_bits: the 32 bits, most significant field first.
to_bits(x) == <<x.sign, x.exponent, x.mantissa>>

is_nan(x) == x.exponent = 255 /\ x.mantissa # 0

is_zero(x) == x.exponent = 0 /\ x.mantissa = 0

\* f32's PartialEq: NaN equals nothing, the two zeros are equal.
f32_eq(x, y) == /\ ~is_nan(x)
                /\ ~is_nan(y)
                /\ (x = y \/ (is_zero(x) /\ is_zero(y)))

\* #[derive(PartialEq)] for Circle: field by field.
CircleEq(c, d) == /\ f32_eq(c.centerx, d.centerx)
                  /\ f32_eq(c.centery, d.centery)
                  /\ f32_eq(c.radius, d.radius)

\* impl Hash for Circle: what is fed to the hasher.  Two keys are taken to
\* hash alike exactly when they feed it the same words.
CircleHash(c) == <<to_bits(c.centerx), to_bits(c.centery), to_bits(c.radius)>>

\* HashMap::get: the entry whose key hashes like k and compares == to k
\* (0 when there is none).
HashMapGet(c, k) ==
    LET found == {i \in DOMAIN c :
                     CircleHash(c[i].key) = CircleHash(k) /\ CircleEq(c[i].key, k)}
    IN IF found = {} THEN 0 ELSE CHOOSE i \in found : \A j \in found : i <= j

\* An insert into a cache that keeps one entry only, evicting the older one.
HashMapInsertEvicting(c, k, v) ==
    <<[key |-> k, vertices |-> v[1], indices |-> v[2]]>>

\* HashMap::insert: the value of a key already present is replaced.
HashMapInsert(c, k, v) ==
    LET i == HashMapGet(c, k)
    IN IF i = 0
       THEN Append(c, [key |-> k, vertices |-> v[1], indices |-> v[2]])
       ELSE [c EXCEPT ![i].vertices = v[1], ![i].indices = v[2]]

(***************************************************************************)
(* VertexBuffer as lyon's geometry builder.                                *)
(***************************************************************************)
VertexBufferNew ==
    [vertices |-> <<>>, indices |-> <<>>, last_vertex_id |-> 0, last_index_id |-> 0]

\* add_fill_vertex as it would be if it handed back the length of the vertex
\* sequence after the push.
AddFillVertexLenAfter(b, position) ==
    [buf |-> [b EXCEPT !.last_vertex_id = Len(b.vertices),
                       !.vertices = Append(@, position)],
     id |-> Len(b.vertices) + 1]

\* FillGeometryBuilder::add_fill_vertex: the buffer afterwards and the id
\* handed back to the tessellator.  (The `as u32` casts never wrap here: the
\* buffer stays far below 2^32 entries.)
add_fill_vertex(b, position) ==
    [buf |-> [b EXCEPT !.last_vertex_id = Len(b.vertices),
                       !.vertices = Append(@, position)],
     id |-> (Len(b.vertices) + 1) - 1]

\* GeometryBuilder::add_triangle
add_triangle(b, va, vb, vc) ==
    [b EXCEPT !.indices = @ \o <<va, vb, vc>>,
              !.last_index_id = vc]

\* get_last_geomtery as it would be if it handed back the whole buffer.
GetWholeGeometry(b, g) == b.vertices

\* The vertices and the indices of the geometry written last.
get_last_geomtery(b, g) == SubSeq(b.vertices, g.vertex + 1, Len(b.vertices))

get_last_indices(b, g) == SubSeq(b.indices, g.index + 1, Len(b.indices))

(***************************************************************************)
(* lyon's FillTessellator::tessellate_circle, at its coarsest flattening:  *)
(* the four cardinal points of the circle and the two triangles between    *)
(* them.  A position is kept symbolic: centre, radius and direction.       *)
(***************************************************************************)
Position(circle, dx, dy) ==
    [x |-> <<circle.centerx, circle.radius, dx>>,
     y |-> <<circle.centery, circle.radius, dy>>]

Degenerate(circle) == is_zero(circle.radius)

\* What the tessellator can answer: a circle with a radius always succeeds
\* (add_fill_vertex never fails); for a radius of zero the library either
\* writes nothing and succeeds, or gives up with an error.
TessellatorResults(circle) == IF Degenerate(circle) THEN {"Ok", "Err"} ELSE {"Ok"}

tessellate_circle(circle, b) ==
    IF Degenerate(circle)
    THEN b
    ELSE LET v0 == add_fill_vertex(b, Position(circle, -1, 0))
             v1 == add_fill_vertex(v0.buf, Position(circle, 0, -1))
             v2 == add_fill_vertex(v1.buf, Position(circle, 1, 0))
             v3 == add_fill_vertex(v2.buf, Position(circle, 0, 1))
             t0 == add_triangle(v3.buf, v0.id, v3.id, v1.id)
         IN add_triangle(t0, v1.id, v3.id, v2.id)

(***************************************************************************)
(* tess(circle, buffers, cache)                                            *)
(***************************************************************************)
NoTess == [op |-> "none",
           key |-> [centerx |-> PlusZero, centery |-> PlusZero, radius |-> PlusZero],
           hit |-> 0, outcome |-> "ok", cached |-> 0]

InitTess ==
    /\ cache = <<>>
    /\ buffers = VertexBufferNew
    /\ geom = [vertex |-> 0, index |-> 0]
    /\ tessLog = <<>>
    /\ tessCalls = 0
    /\ lastTess = NoTess

\* The cache-hit arm: the cached mesh is appended to the output buffer.
TessHit(b, entry) ==
    [b EXCEPT !.vertices = @ \o entry.vertices, !.indices = @ \o entry.indices]

tess(circle, result) ==
    /\ ~panicked
    /\ tessCalls < MaxTessCalls
    /\ tessCalls' = tessCalls + 1
    /\ LET i == HashMapGet(cache, circle)
       IN IF i # 0
          THEN /\ buffers' = TessHit(buffers, cache[i])
               /\ lastTess' = [op |-> "tess", key |-> circle, hit |-> i,
                               outcome |-> "ok", cached |-> Len(cache)]
               /\ UNCHANGED <<cache, geom, tessLog, panicked>>
          ELSE /\ tessLog' = Append(tessLog, circle)
               /\ geom' = [vertex |-> Len(buffers.vertices),
                           index |-> Len(buffers.indices)]
               /\ IF result = "Ok"
                  THEN LET b == tessellate_circle(circle, buffers)
                       IN /\ buffers' = b
                          /\ cache' = HashMapInsert(cache, circle,
                                         <<get_last_geomtery(b, geom'),
                                           get_last_indices(b, geom')>>)
                          /\ UNCHANGED panicked
                  ELSE \* abort_geometry panics, and so would unwrap()
                       /\ panicked' = TRUE
                       /\ UNCHANGED <<buffers, cache>>
               /\ lastTess' = [op |-> "tess", key |-> circle, hit |-> 0,
                               outcome |-> IF result = "Ok" THEN "ok" ELSE "panic",
                               cached |-> Len(cache)]

(***************************************************************************)
(* Materials (renderer/material.rs).                                       *)
(***************************************************************************)
\* The colours used: every kind of f32 in r, two values in g, so that the
\* four components of a colour can differ from one another.
Colours == [r : {PlusZero, MinusZero, One, QuietNaN}, g : {PlusZero, One},
            b : {PlusZero}, a : {One}]

StretchModes == {"Exact", "ExactCenter", "Stretch"}

GradientTypes == {"Linear", "Radial", "Conic"}

\* The texture the textured materials carry.
MaterialTexture ==
    [variant |-> "RawTexture", buffer |-> Fill(4, 0), width |-> 1, height |-> 1,
     id |-> 1, fingerprint |-> 0]

Materials ==
    {[variant |-> "Color", color |-> c] : c \in Colours}
    \cup
    {[variant |-> "Texture", texture |-> MaterialTexture, stretch |-> m] :
        m \in StretchModes}
    \cup
    {[variant |-> "Gradient", gradient_type |-> t, colours |-> <<>>, stops |-> <<>>,
      repeat |-> "None", rotation |-> PlusZero] : t \in GradientTypes}

\* TextureStretchMode::u32_repr
u32_repr(stretch) ==
    CASE stretch = "Exact" -> 0
      [] stretch = "ExactCenter" -> 1
      [] stretch = "Stretch" -> 2

\* Material::material_type
material_type(m) == m.variant

\* The four bytes of an f32 in memory, least significant first.
f32_bytes(x) ==
    <<x.mantissa % 256,
      (x.mantissa \div 256) % 256,
      (x.exponent % 2) * 128 + (x.mantissa \div 65536),
      x.sign * 128 + (x.exponent \div 2)>>

\* bytes_of as it would be for a colour laid out b, g, r, a.
BytesOfBgra(color) ==
    f32_bytes(color.b) \o f32_bytes(color.g) \o f32_bytes(color.r) \o f32_bytes(color.a)

\* bytemuck::bytes_of(color): Colour is repr(C), its fields in the order
\* r, g, b, a.
bytes_of(color) ==
    f32_bytes(color.r) \o f32_bytes(color.g) \o f32_bytes(color.b) \o f32_bytes(color.a)

\* Material::uniform_bytes: the payload, or the panic of todo!().
uniform_bytes(m) ==
    CASE m.variant = "Color" -> [outcome |-> "ok", bytes |-> bytes_of(m.color)]
      [] m.variant = "Texture" ->
            [outcome |-> "ok", bytes |-> <<u32_repr(m.stretch) % 256>>]
      [] m.variant = "Gradient" -> [outcome |-> "panic", bytes |-> <<>>]

\* std::mem::size_of::<[f32; 4]>()
SizeOfF32x4 == 4 * 4

\* MaterialType::uniform_buffer_size
MaterialType_uniform_buffer_size(ty) ==
    CASE ty = "Color" -> SizeOfF32x4
      [] ty = "Texture" -> SizeOfF32x4
      [] ty = "Gradient" -> SizeOfF32x4

\* Material::uniform_buffer_size
uniform_buffer_size(m) == MaterialType_uniform_buffer_size(material_type(m))

\* Material::vertex_shader_module: the WGSL source the module is made from.
vertex_shader_module(m) == "shaders/vertex.wgsl"

\* fragment_shader_module as it would be with the colour arm pasted over
\* the gradient arm.
FragmentShaderPasted(m) ==
    CASE m.variant = "Color" -> "shaders/colour.wgsl"
      [] m.variant = "Texture" -> "shaders/texture.wgsl"
      [] m.variant = "Gradient" -> "shaders/colour.wgsl"

\* Material::fragment_shader_module
fragment_shader_module(m) ==
    CASE m.variant = "Color" -> "shaders/colour.wgsl"
      [] m.variant = "Texture" -> "shaders/texture.wgsl"
      [] m.variant = "Gradient" -> "shaders/gradient.wgsl"

NoCall == [op |-> "none", material |-> [variant |-> "Color", color |->
              [r |-> PlusZero, g |-> PlusZero, b |-> PlusZero, a |-> PlusZero]],
           outcome |-> "ok", bytes |-> <<>>, shader |-> ""]

InitMaterial ==
    /\ matLast = NoCall
    /\ matPrev = NoCall

CallUniformBytes(m) ==
    /\ ~panicked
    /\ matPrev' = matLast
    /\ matLast' = [op |-> "uniform_bytes", material |-> m,
                   outcome |-> uniform_bytes(m).outcome,
                   bytes |-> uniform_bytes(m).bytes, shader |-> ""]
    /\ panicked' = (uniform_bytes(m).outcome = "panic")

CallVertexShaderModule(m) ==
    /\ ~panicked
    /\ matPrev' = matLast
    /\ matLast' = [op |-> "vertex_shader_module", material |-> m, outcome |-> "ok",
                   bytes |-> <<>>, shader |-> vertex_shader_module(m)]
    /\ UNCHANGED panicked

CallFragmentShaderModule(m) ==
    /\ ~panicked
    /\ matPrev' = matLast
    /\ matLast' = [op |-> "fragment_shader_module", material |-> m, outcome |-> "ok",
                   bytes |-> <<>>, shader |-> fragment_shader_module(m)]
    /\ UNCHANGED panicked

(***************************************************************************)
(* The application (main.rs): the scene, the window_event handler and the  *)
(* frame GPUState::paint draws.  A handler runs to its end before the      *)
(* event loop delivers the next event.                                     *)
(***************************************************************************)
\* vec![g2a, g2b, g3, g4, g5]
SceneGeoms ==
    <<[name |-> "g2a", material |-> "LIGHTGREY"],
      [name |-> "g2b", material |-> "RED"],
      [name |-> "g3", material |-> "Texture"],
      [name |-> "g4", material |-> "WHITE"],
      [name |-> "g5", material |-> "WHITE"]>>

WindowEvents ==
    {"RedrawRequested", "Destroyed", "CloseRequested", "Resized", "KeyboardInput",
     "Other"}

\* Window::inner_size() as the window can report it.
InnerSizes == {<<2200, 2200>>, <<800, 600>>}

\* Surface::get_current_texture(): a frame, or a swap-chain error.
SurfaceResults == {"Ok", "Err"}

\* prepare as it would be if it walked the geoms back to front.
PrepareReversed(g) ==
    [k \in DOMAIN g |-> [geom |-> Len(g) + 1 - k, material |-> g[Len(g) + 1 - k].material]]

\* Renderer::prepare: one RenderData entry for each geom, in list order.
prepare(g) == [k \in DOMAIN g |-> [geom |-> k, material |-> g[k].material]]

\* Renderer::render: one indexed draw for each RenderData entry, in order.
render(g, rd) == [k \in DOMAIN rd |-> [geom |-> rd[k].geom, material |-> g[rd[k].geom].material]]

Call(name, n, g, rd, draws) ==
    [call |-> name, frame |-> n, geoms |-> g, rd |-> rd, draws |-> draws]

\* The material frame n gives geoms[2].
Toggle(g, n) ==
    [g EXCEPT ![3].material = IF n % 2 = 0 THEN "RED" ELSE "BLUE"]

\* paint as it would be if it rendered before it prepared.
PaintedRenderFirst(g, n) ==
    LET rd == prepare(g)
        draws == render(g, rd)
    IN <<Call("render", n, g, rd, draws),
         Call("prepare", n, g, rd, <<>>),
         Call("submit", n, g, <<>>, draws),
         Call("present", n, g, <<>>, <<>>)>>

\* GPUState::paint from the command encoder on: prepare, the render pass,
\* queue.submit, frame.present.
Painted(g, n) ==
    LET rd == prepare(g)
        draws == render(g, rd)
    IN <<Call("prepare", n, g, rd, <<>>),
         Call("render", n, g, rd, draws),
         Call("submit", n, g, <<>>, draws),
         Call("present", n, g, <<>>, <<>>)>>

\* paint as it would be if it recoloured geoms[2] before acquiring the frame.
PaintToggleFirst(g, n, surface) ==
    IF surface = "Err"
    THEN [geoms |-> Toggle(g, n), acquired |-> FALSE, calls |-> <<>>]
    ELSE [geoms |-> Toggle(g, n), acquired |-> TRUE, calls |-> Painted(Toggle(g, n), n)]

\* GPUState::paint(&mut self, geoms, i)
paint(g, n, surface) ==
    IF surface = "Err"
    THEN [geoms |-> g, acquired |-> FALSE, calls |-> <<>>]
    ELSE [geoms |-> Toggle(g, n), acquired |-> TRUE, calls |-> Painted(Toggle(g, n), n)]

NoFrame == [event |-> "none", paints |-> 0, acquired |-> FALSE, n |-> 0, calls |-> <<>>]

InitApp ==
    /\ app_i = 0
    /\ exiting = FALSE
    /\ geoms = SceneGeoms
    /\ surface_desc = <<2200, 2200>>
    /\ frame = NoFrame

\* window_event as it would be without the return on event_loop.exiting().
WindowEventPaintsAlways(event, inner, surface) ==
    /\ ~panicked
    /\ app_i < MaxFrames
    /\ exiting' = (exiting \/ event \in {"Destroyed", "CloseRequested"})
    /\ surface_desc' = IF event = "Resized" THEN inner ELSE surface_desc
    /\ LET p == paint(geoms, app_i, surface)
       IN /\ geoms' = p.geoms
          /\ app_i' = app_i + 1
          /\ frame' = [event |-> event, paints |-> 1, acquired |-> p.acquired,
                       n |-> app_i, calls |-> p.calls]

\* App::window_event(&mut self, event_loop, _id, event)
window_event(event, inner, surface) ==
    /\ ~panicked
    /\ (app_i < MaxFrames \/ exiting \/ event \in {"Destroyed", "CloseRequested"})
    /\ exiting' = (exiting \/ event \in {"Destroyed", "CloseRequested"})
    /\ surface_desc' = IF event = "Resized" THEN inner ELSE surface_desc
    /\ IF exiting'
       THEN /\ frame' = [event |-> event, paints |-> 0, acquired |-> FALSE,
                         n |-> app_i, calls |-> <<>>]
            /\ UNCHANGED <<app_i, geoms>>
       ELSE LET p == paint(geoms, app_i, surface)
            IN /\ geoms' = p.geoms
               /\ app_i' = app_i + 1
               /\ frame' = [event |-> event, paints |-> 1, acquired |-> p.acquired,
                            n |-> app_i, calls |-> p.calls]

(***************************************************************************)
(* The VertexBuffer driven call by call: what a tessellator does to it     *)
(* through FillGeometryBuilder and GeometryBuilder, and what tess does to  *)
(* it on a cache hit.                                                      *)
(***************************************************************************)
BuilderCircle == [centerx |-> PlusZero, centery |-> PlusZero, radius |-> One]

\* FillVertex::position() of the vertices the tessellator passes in.
FillVertices == {Position(BuilderCircle, -1, 0), Position(BuilderCircle, 0, 1)}

\* A cache entry as tess made it: the mesh of one circle.
CachedMesh ==
    LET b == tessellate_circle(BuilderCircle, VertexBufferNew)
    IN [key |-> BuilderCircle, vertices |-> b.vertices, indices |-> b.indices]

\* The VertexIds the tessellator holds: those add_fill_vertex handed back.
HandedBack == {vbIds[k].id : k \in DOMAIN vbIds}

NoBuilderCall == [op |-> "none", id |-> 0, vertex |-> Position(BuilderCircle, 0, 0),
                  tri |-> <<>>, calls |-> 0]

InitBuilder ==
    /\ builder = VertexBufferNew
    /\ vbLast = NoBuilderCall
    /\ vbIds = <<>>

CallAddFillVertex(position) ==
    /\ vbLast.calls < MaxBuilderCalls
    /\ LET r == add_fill_vertex(builder, position)
       IN /\ builder' = r.buf
          /\ vbLast' = [op |-> "add_fill_vertex", id |-> r.id, vertex |-> position,
                        tri |-> <<>>, calls |-> vbLast.calls + 1]
          /\ vbIds' = Append(vbIds, [id |-> r.id, vertex |-> position])

CallAddTriangle(a, b, c) ==
    /\ vbLast.calls < MaxBuilderCalls
    /\ builder' = add_triangle(builder, a, b, c)
    /\ vbLast' = [op |-> "add_triangle", id |-> vbLast.id, vertex |-> vbLast.vertex,
                  tri |-> <<a, b, c>>, calls |-> vbLast.calls + 1]
    /\ UNCHANGED vbIds

\* The cache-hit path of tess, between two geometries of the tessellator.
CallExtend(entry) ==
    /\ vbLast.calls < MaxBuilderCalls
    /\ builder' = TessHit(builder, entry)
    /\ vbLast' = [op |-> "extend", id |-> vbLast.id, vertex |-> vbLast.vertex,
                  tri |-> <<>>, calls |-> vbLast.calls + 1]
    /\ UNCHANGED vbIds

(***************************************************************************)
(* Specifications.                                                         *)
(***************************************************************************)
InitAll ==
    InitTexture /\ InitTess /\ InitMaterial /\ InitApp /\ InitBuilder /\ panicked = FALSE

NewFromImage ==
    /\ \E image \in DynamicImages, f \in Random : new_from_image(image, f)
    /\ UNCHANGED <<tessVars, matVars, appVars, vbVars>>

NewRaw ==
    /\ \E w \in Widths, h \in Heights, f \in Random : new_raw(w, h, f)
    /\ UNCHANGED <<tessVars, matVars, appVars, vbVars>>

Clone ==
    /\ \E t \in DOMAIN textures : clone(t)
    /\ UNCHANGED <<tessVars, matVars, appVars, vbVars>>

UpdateImage ==
    /\ \E t \in DOMAIN textures, image \in DynamicImages, f \in Random :
          update_image(t, image, f)
    /\ UNCHANGED <<tessVars, matVars, appVars, vbVars>>

Tess ==
    /\ \E circle \in Circles : \E result \in TessellatorResults(circle) :
          tess(circle, result)
    /\ UNCHANGED <<texVars, matVars, appVars, vbVars>>

UniformBytes ==
    /\ \E m \in Materials : CallUniformBytes(m)
    /\ UNCHANGED <<texVars, tessVars, appVars, vbVars>>

VertexShaderModule ==
    /\ \E m \in Materials : CallVertexShaderModule(m)
    /\ UNCHANGED <<texVars, tessVars, appVars, vbVars>>

FragmentShaderModule ==
    /\ \E m \in Materials : CallFragmentShaderModule(m)
    /\ UNCHANGED <<texVars, tessVars, appVars, vbVars>>

AddFillVertex ==
    /\ \E position \in FillVertices : CallAddFillVertex(position)
    /\ UNCHANGED <<texVars, tessVars, matVars, appVars, panicked>>

AddTriangle ==
    /\ \E a \in HandedBack, b \in HandedBack, c \in HandedBack : CallAddTriangle(a, b, c)
    /\ UNCHANGED <<texVars, tessVars, matVars, appVars, panicked>>

ExtendFromCache ==
    /\ CallExtend(CachedMesh)
    /\ UNCHANGED <<texVars, tessVars, matVars, appVars, panicked>>

WindowEvent ==
    /\ \E event \in WindowEvents, inner \in InnerSizes, surface \in SurfaceResults :
          window_event(event, inner, surface)
    /\ UNCHANGED <<texVars, tessVars, matVars, vbVars, panicked>>

NextTexture == NewFromImage \/ NewRaw \/ Clone \/ UpdateImage

NextTess == Tess

NextMaterial == UniformBytes \/ VertexShaderModule \/ FragmentShaderModule

NextApp == WindowEvent

NextBuilder == AddFillVertex \/ AddTriangle \/ ExtendFromCache

SpecTexture == InitAll /\ [][NextTexture]_vars

SpecTess == InitAll /\ [][NextTess]_vars

SpecMaterial == InitAll /\ [][NextMaterial]_vars

SpecApp == InitAll /\ [][NextApp]_vars

SpecBuilder == InitAll /\ [][NextBuilder]_vars

(***************************************************************************)
(* Properties of Texture (checked under SpecTexture).                      *)
(***************************************************************************)
UpdatedOk == last.op = "update_image" /\ last.outcome = "ok"

\* C1: fingerprint() of a Texture value changes on no step other than an
\* update_image of that value, and every successful update_image leaves it
\* different from what it was immediately before the call.
C1_FingerprintStability ==
    [][\A t \in DOMAIN textures :
          IF last'.op = "update_image" /\ last'.t = t /\ last'.outcome = "ok"
          THEN fingerprint(textures'[t]) # fingerprint(textures[t])
          ELSE fingerprint(textures'[t]) = fingerprint(textures[t])]_vars

\* C2: cache_id() of every Texture value is the identity the value was
\* constructed with, whatever update_image calls it has been through.
C2_IdentityStable ==
    \A t \in DOMAIN textures : cache_id(textures[t]) = born[t]

\* An update_image has succeeded on a texture, with new content and a new
\* fingerprint installed, and the texture still answers its first identity.
C2_Witness ==
    /\ UpdatedOk
    /\ cache_id(textures[last.t]) = born[last.t]
    /\ \E t \in DOMAIN textures :
          /\ t # last.t
          /\ born[t] = born[last.t]
          /\ fingerprint(textures[t]) # fingerprint(textures[last.t])

\* C3: update_image on an image-backed texture with an image of other
\* dimensions returns a DimensionMismatch error without aborting, and leaves
\* data(), size(), fingerprint() and cache_id() as they were.
C3_MismatchRecoverable ==
    [][(/\ last'.op = "update_image"
        /\ textures[last'.t].variant = "RgbaImageTexture"
        /\ last'.arg # size(heap, textures[last'.t]))
       => /\ last'.outcome = "DimensionMismatch"
          /\ ~panicked'
          /\ Observe(heap', textures'[last'.t]) = Observe(heap, textures[last'.t])]_vars

\* C7: two Texture values with equal cache identity and equal fingerprint
\* hold equal pixel content.
C7_FingerprintImpliesContent ==
    \A t1, t2 \in DOMAIN textures :
        (/\ cache_id(textures[t1]) = cache_id(textures[t2])
         /\ fingerprint(textures[t1]) = fingerprint(textures[t2]))
        => data(heap, textures[t1]) = data(heap, textures[t2])

\* C8: an update_image on one Texture value changes neither the data, nor
\* the size, nor the fingerprint read through any other Texture value, a
\* clone sharing its buffer included.
C8_CloneUnaffected ==
    [][\A t \in DOMAIN textures :
          (last'.op = "update_image" /\ last'.t # t)
          => /\ data(heap', textures'[t]) = data(heap, textures[t])
             /\ size(heap', textures'[t]) = size(heap, textures[t])
             /\ fingerprint(textures'[t]) = fingerprint(textures[t])]_vars

\* One of two clones has been updated to other content: the two no longer
\* share a buffer and read different data.
C8_Witness ==
    /\ UpdatedOk
    /\ \E t \in DOMAIN textures :
          /\ t # last.t
          /\ textures[t].variant = "RgbaImageTexture"
          /\ cache_id(textures[t]) = cache_id(textures[last.t])
          /\ textures[t].image # textures[last.t].image
          /\ data(heap, textures[t]) # data(heap, textures[last.t])

\* C18: no step changes size(), width(), height() or the length of data()
\* of an image-backed texture, so after any update_image calls that return
\* normally they are what they were at construction.
C18_DimensionsFixed ==
    [][\A t \in DOMAIN textures :
          textures[t].variant = "RgbaImageTexture"
          => /\ size(heap', textures'[t]) = size(heap, textures[t])
             /\ width(heap', textures'[t]) = width(heap, textures[t])
             /\ height(heap', textures'[t]) = height(heap, textures[t])
             /\ Len(data(heap', textures'[t])) = Len(data(heap, textures[t]))]_vars

\* An update_image has returned normally on a texture two pixels wide.
C18_Witness ==
    /\ UpdatedOk
    /\ size(heap, textures[last.t]) = last.arg
    /\ width(heap, textures[last.t]) = 2
    /\ Len(data(heap, textures[last.t])) = 8

\* C19: update_image on a raw-buffer-backed texture fails, and leaves the
\* buffer, width, height, cache identity and fingerprint of the texture as
\* they were.
C19_RawUpdateFails ==
    [][(last'.op = "update_image" /\ textures[last'.t].variant = "RawTexture")
       => /\ last'.outcome = "panic"
          /\ panicked'
          /\ textures'[last'.t] = textures[last'.t]]_vars

\* An update_image has failed on a raw texture.
C19_Witness ==
    /\ last.op = "update_image"
    /\ last.outcome = "panic"
    /\ textures[last.t].variant = "RawTexture"
    /\ panicked

(***************************************************************************)
(* Properties of the mesh cache (checked under SpecTess).                  *)
(***************************************************************************)
\* The entries of the cache, as it was before the last call, whose key has
\* the bits of k.
SameBits(k) == {i \in 1..lastTess.cached : cache[i].key = k}

\* C4: tessellating a degenerate circle makes tess return an explicit error
\* without aborting the process, and leaves the cache without an entry for
\* that circle.
C4_DegenerateIsAnError ==
    (lastTess.op = "tess" /\ lastTess.hit = 0 /\ Degenerate(lastTess.key))
    => /\ lastTess.outcome = "DegenerateGeometry"
       /\ ~panicked
       /\ \A i \in DOMAIN cache : cache[i].key # lastTess.key

\* C5: the tessellator is run at most once for a given key.
C5_TessellatedOnce ==
    \A i, j \in DOMAIN tessLog : tessLog[i] = tessLog[j] => i = j

\* C6: on a cache hit tess appends to the output buffer the vertices and
\* indices a miss would append from the same state of the output buffer.
C6_CacheTransparent ==
    [][(lastTess'.op = "tess" /\ lastTess'.hit # 0)
       => LET fresh == tessellate_circle(lastTess'.key, buffers)
          IN /\ buffers'.vertices = fresh.vertices
             /\ buffers'.indices = fresh.indices]_vars

\* C9: a tess call hits exactly when the cache holds an entry whose key is
\* bit-identical to the circle, and the entry it is served is such an entry.
C9_KeyIsBitEquality ==
    lastTess.op = "tess"
    => /\ (lastTess.hit # 0) <=> (SameBits(lastTess.key) # {})
       /\ lastTess.hit # 0 => lastTess.hit \in SameBits(lastTess.key)

\* C10: no tess call removes an entry of the cache or changes the key or
\* the mesh of an entry.
C10_GrowOnly ==
    [][/\ Len(cache') >= Len(cache)
       /\ \A i \in DOMAIN cache : cache'[i] = cache[i]]_vars

\* Two meshes are cached, and the call just made was served one of them.
C10_Witness ==
    /\ Len(cache) >= 2
    /\ lastTess.op = "tess"
    /\ lastTess.hit # 0
    /\ Len(buffers.vertices) > 0

\* The mesh tessellating the key of a cache entry writes into an empty buffer.
Alone(entry) == tessellate_circle(entry.key, VertexBufferNew)

f32_from_bytes(bs) ==
    F32(bs[4] \div 128,
        (bs[4] % 128) * 2 + (bs[3] \div 128),
        (bs[3] % 128) * 65536 + bs[2] * 256 + bs[1])

\* C12: for a Color material uniform_bytes returns 16 bytes, which are the
\* f32 r, g, b, a of the colour in that order, bit for bit.
C12_ColourPayload ==
    (matLast.op = "uniform_bytes" /\ matLast.material.variant = "Color")
    => /\ matLast.outcome = "ok"
       /\ Len(matLast.bytes) = 16
       /\ f32_from_bytes(SubSeq(matLast.bytes, 1, 4)) = matLast.material.color.r
       /\ f32_from_bytes(SubSeq(matLast.bytes, 5, 8)) = matLast.material.color.g
       /\ f32_from_bytes(SubSeq(matLast.bytes, 9, 12)) = matLast.material.color.b
       /\ f32_from_bytes(SubSeq(matLast.bytes, 13, 16)) = matLast.material.color.a

\* uniform_bytes has answered for a colour with a NaN in r and four
\* components that are not all alike.
C12_Witness ==
    /\ matLast.op = "uniform_bytes"
    /\ matLast.material.variant = "Color"
    /\ matLast.material.color.r = QuietNaN
    /\ matLast.material.color.g = One
    /\ matLast.bytes # <<>>

\* C13: two materials get the same fragment shader exactly when they are of
\* the same variant, and every material gets the same vertex shader.
C13_ShaderByVariant ==
    /\ (matLast.op = "fragment_shader_module" /\ matPrev.op = "fragment_shader_module")
       => ((matLast.shader = matPrev.shader)
           <=> (matLast.material.variant = matPrev.material.variant))
    /\ (matLast.op = "vertex_shader_module" /\ matPrev.op = "vertex_shader_module")
       => matLast.shader = matPrev.shader

\* The fragment shader was asked for a gradient and then for a colour.
C13_Witness ==
    /\ matLast.op = "fragment_shader_module"
    /\ matPrev.op = "fragment_shader_module"
    /\ matPrev.material.variant = "Gradient"
    /\ matLast.material.variant = "Color"

\* C16: for every material uniform_bytes returns a payload, and the payload
\* is as long as uniform_buffer_size of the material says.
C16_PayloadFillsBuffer ==
    matLast.op = "uniform_bytes"
    => /\ matLast.outcome = "ok"
       /\ Len(matLast.bytes) = uniform_buffer_size(matLast.material)

(***************************************************************************)
(* Properties of the application (checked under SpecApp).                  *)
(***************************************************************************)
CallNames(calls) == [k \in DOMAIN calls |-> calls[k].call]

\* C11: a frame that is painted runs prepare, then render on the RenderData
\* and the geoms of that prepare, then the submission, then present, and
\* every call of the handler belongs to that one frame.
C11_PrepareThenRender ==
    (frame.paints = 1 /\ frame.acquired)
    => /\ CallNames(frame.calls) = <<"prepare", "render", "submit", "present">>
       /\ frame.calls[2].rd = frame.calls[1].rd
       /\ frame.calls[2].geoms = frame.calls[1].geoms
       /\ frame.calls[3].draws = frame.calls[2].draws
       /\ \A k \in DOMAIN frame.calls : frame.calls[k].frame = frame.n

\* The second frame has been painted.
C11_Witness ==
    /\ frame.paints = 1
    /\ frame.acquired
    /\ frame.n = 1
    /\ Len(frame.calls) = 4

C20_NoPaintAfterExit ==
    [][/\ exiting => exiting'
       /\ frame'.event \in {"Destroyed", "CloseRequested"} => exiting'
       /\ IF exiting'
          THEN frame'.paints = 0 /\ frame'.calls = <<>> /\ app_i' = app_i /\ geoms' = geoms
          ELSE frame'.paints = 1 /\ app_i' = app_i + 1]_vars

\* A redraw request was handled after the exit, two frames having been painted.
C20_Witness ==
    /\ exiting
    /\ frame.event = "RedrawRequested"
    /\ frame.paints = 0
    /\ app_i = 2

(***************************************************************************)
(* Properties of the geometry builder (checked under SpecBuilder).         *)
(***************************************************************************)
\* C21: add_fill_vertex hands back the index at which it stored the vertex
\* in the one vertex sequence of the buffer, so two calls in a row hand back
\* consecutive ids and every id handed back keeps naming its vertex;
\* last_vertex_id is the id the most recent add_fill_vertex handed back; and
\* add_triangle appends its three ids a, b, c, in that order, to the indices
\* and touches nothing else of the two sequences.
C21_BuilderIds ==
    [][/\ vbLast'.op = "add_fill_vertex"
          => /\ vbLast'.id = Len(builder.vertices)
             /\ builder'.vertices = Append(builder.vertices, vbLast'.vertex)
             /\ builder'.indices = builder.indices
             /\ (vbLast.op = "add_fill_vertex" => vbLast'.id = vbLast.id + 1)
       /\ vbLast'.op = "add_triangle"
          => /\ builder'.indices = builder.indices \o vbLast'.tri
             /\ Len(vbLast'.tri) = 3
             /\ builder'.vertices = builder.vertices
       /\ vbIds' # <<>>
          => builder'.last_vertex_id = vbIds'[Len(vbIds')].id
       /\ \A k \in DOMAIN vbIds' :
             builder'.vertices[vbIds'[k].id + 1] = vbIds'[k].vertex]_vars

\* A vertex was added after a cached mesh had been copied in and another
\* vertex before it, and a triangle of two different ids was added last.
C21_Witness ==
    /\ vbLast.op = "add_triangle"
    /\ vbLast.tri[1] # vbLast.tri[3]
    /\ Len(vbIds) = 2
    /\ vbIds[2].id > vbIds[1].id + 1
    /\ builder.last_vertex_id = vbIds[2].id

====
